---- MODULE Spec2Model ----
(***************************************************************************)
(* Register allocation of one machine function, as implemented in          *)
(* src/allocate_register.cpp: liveness analysis, linearisation of the CFG, *)
(* live intervals, linear scan over the pool r4..r12 and spill rewriting,  *)
(* iterated until a round spills nothing.                                  *)
(*                                                                         *)
(* A function is a sequence of basic blocks (the order of f->bb); a block  *)
(* is a record [insts, succ] with succ a pair of block numbers (0 = null). *)
(* An operand slot ("MachineOperand *") is the triple                      *)
(* <<block, instruction index, field name>>.                               *)
(***************************************************************************)
EXTENDS Integers, Sequences, FiniteSets, TLC

(***************************************************************************)
(* Operands and instructions                                               *)
(***************************************************************************)
r0 == 0
r3 == 3
ip == 12
sp == 13
lr == 14

V(n) == [state |-> "Virtual", value |-> n]
R(r) == [state |-> "PreColored", value |-> r]
I(n) == [state |-> "Immediate", value |-> n]
Alloc(r) == [state |-> "Allocated", value |-> r]
\* an operand field the instruction kind does not have
NoOperand == [state |-> "None", value |-> 0]

needs_color(o) == o.state \in {"Virtual", "PreColored"}

\* born: the round whose spill rewrite inserted the instruction (0: input)
Inst(k) ==
  [kind |-> k, dst |-> NoOperand, lhs |-> NoOperand, rhs |-> NoOperand,
   acc |-> NoOperand, addr |-> NoOperand, offset |-> NoOperand,
   data |-> NoOperand, nparams |-> 0, born |-> 0]

MIBinary(d, l, r) == [Inst("MIBinary") EXCEPT !.dst = d, !.lhs = l, !.rhs = r]
MIFma(d, l, r, a) ==
  [Inst("MIFma") EXCEPT !.dst = d, !.lhs = l, !.rhs = r, !.acc = a]
MIMove(d, r) == [Inst("MIMove") EXCEPT !.dst = d, !.rhs = r]
MILoad(d, a, o) == [Inst("MILoad") EXCEPT !.dst = d, !.addr = a, !.offset = o]
MIStore(d, a, o) ==
  [Inst("MIStore") EXCEPT !.data = d, !.addr = a, !.offset = o]
MICompare(l, r) == [Inst("MICompare") EXCEPT !.lhs = l, !.rhs = r]
MICall(n) == [Inst("MICall") EXCEPT !.nparams = n]
MIGlobal(d) == [Inst("MIGlobal") EXCEPT !.dst = d]
MIReturn == Inst("MIReturn")
MIJump == Inst("MIJump")

Min(a, b) == IF a < b THEN a ELSE b
Max(a, b) == IF a < b THEN b ELSE a

\* the operands an instruction writes and reads, by value
get_def_use(inst) ==
  CASE inst.kind \in {"MIBinary", "MILongMul"} ->
         [def |-> <<inst.dst>>, use |-> <<inst.lhs, inst.rhs>>]
    [] inst.kind = "MIFma" ->
         [def |-> <<inst.dst>>,
          use |-> <<inst.dst, inst.lhs, inst.rhs, inst.acc>>]
    [] inst.kind = "MIMove" -> [def |-> <<inst.dst>>, use |-> <<inst.rhs>>]
    [] inst.kind = "MILoad" ->
         [def |-> <<inst.dst>>, use |-> <<inst.addr, inst.offset>>]
    [] inst.kind = "MIStore" ->
         [def |-> <<>>, use |-> <<inst.data, inst.addr, inst.offset>>]
    [] inst.kind = "MICompare" ->
         [def |-> <<>>, use |-> <<inst.lhs, inst.rhs>>]
    [] inst.kind = "MICall" ->
         [def |-> [i \in 1..(r3 - r0 + 1) |-> R(r0 + i - 1)]
                  \o <<R(lr), R(ip)>>,
          use |-> [i \in 1..Min(inst.nparams, 4) |-> R(r0 + i - 1)]]
    [] inst.kind = "MIGlobal" -> [def |-> <<inst.dst>>, use |-> <<>>]
    [] inst.kind = "MIReturn" -> [def |-> <<>>, use |-> <<R(r0)>>]
    [] OTHER -> [def |-> <<>>, use |-> <<>>]

\* the same as slots: the field written ("none": nullptr) and the fields read
get_def_use_ptr(inst) ==
  CASE inst.kind \in {"MIBinary", "MILongMul"} ->
         [def |-> "dst", use |-> <<"lhs", "rhs">>]
    [] inst.kind = "MIFma" ->
         [def |-> "dst", use |-> <<"dst", "lhs", "rhs", "acc">>]
    [] inst.kind = "MIMove" -> [def |-> "dst", use |-> <<"rhs">>]
    [] inst.kind = "MILoad" -> [def |-> "dst", use |-> <<"addr", "offset">>]
    [] inst.kind = "MIStore" ->
         [def |-> "none", use |-> <<"data", "addr", "offset">>]
    [] inst.kind = "MICompare" -> [def |-> "none", use |-> <<"lhs", "rhs">>]
    [] inst.kind = "MICall" -> [def |-> "none", use |-> <<>>]
    [] inst.kind = "MIGlobal" -> [def |-> "dst", use |-> <<>>]
    [] OTHER -> [def |-> "none", use |-> <<>>]

Range(s) == {s[i] : i \in 1..Len(s)}

\* the operand held by a slot
Deref(bbs, p) == bbs[p[1]].insts[p[2]][p[3]]
\* the slot overwritten
Assign(bbs, p, o) == [bbs EXCEPT ![p[1]].insts[p[2]][p[3]] = o]

DefSlots(bbs, b, i) ==
  LET d == get_def_use_ptr(bbs[b].insts[i]).def
  IN IF d = "none" THEN <<>> ELSE << <<b, i, d>> >>
UseSlots(bbs, b, i) ==
  LET u == get_def_use_ptr(bbs[b].insts[i]).use
  IN [k \in 1..Len(u) |-> <<b, i, u[k]>>]

(***************************************************************************)
(* State                                                                   *)
(***************************************************************************)
VARIABLES
  blocks,         \* f->bb: the instructions and successors of every block
  stack_size,     \* f->stack_size
  virtual_max,    \* f->virtual_max
  liveuse, def, livein, liveout,   \* bb->liveuse ... of every block
  done, spilled_nodes,
  round,          \* iterations of while (!done) started so far
  pc,             \* position inside the loop body
  bbi, changed,   \* liveness_analysis: block cursor and flag
  visited, dfs, stack,
  inst2int, operand2start, operand2end, allocated, inverse_ptr, start_list,
  used, active, alloc,
  si              \* index i of the scan loop over start_list

vars == <<blocks, stack_size, virtual_max, liveuse, def, livein, liveout,
          done, spilled_nodes, round, pc, bbi, changed, visited, dfs, stack,
          inst2int, operand2start, operand2end, allocated, inverse_ptr,
          start_list, used, active, alloc, si>>

fvars == <<blocks, stack_size, virtual_max>>
livevars == <<liveuse, def, livein, liveout>>
dfsvars == <<visited, dfs, stack>>
ivars == <<inst2int, operand2start, operand2end, inverse_ptr>>
scanvars == <<used, active, alloc, si>>

NB == Len(blocks)

\* the rounds of one run that are explored
MaxRounds == 24
EmptyMap == [x \in {} |-> 0]

(***************************************************************************)
(* liveness_analysis                                                       *)
(***************************************************************************)
\* the body of the loop over the instructions of a block; acc: [liveuse, def]
LocalStep(inst, acc) ==
  LET du == get_def_use(inst)
      lu1 == acc.liveuse
               \cup {u \in Range(du.use) : needs_color(u) /\ u \notin acc.def}
      df1 == acc.def
               \cup {d \in Range(du.def) : needs_color(d) /\ d \notin lu1}
  IN [liveuse |-> lu1, def |-> df1]

\* the loop over the instructions lo..hi of a block, in order (the range is
\* walked in two halves to keep the evaluation shallow)
RECURSIVE LocalSets(_, _, _, _)
LocalSets(insts, lo, hi, acc) ==
  IF lo > hi THEN acc
  ELSE IF lo = hi THEN LocalStep(insts[lo], acc)
  ELSE LET mid == (lo + hi) \div 2
           half == LocalSets(insts, lo, mid, acc)
       IN IF half = acc THEN LocalSets(insts, mid + 1, hi, acc)
          ELSE LocalSets(insts, mid + 1, hi, half)

\* while (!done): liveness_analysis begins; the local sets of every block
LivenessLocal ==
  /\ pc = "loop"
  /\ ~done
  /\ round < MaxRounds
  /\ round' = round + 1
  /\ LET ls == [b \in 1..NB |->
                  LocalSets(blocks[b].insts, 1, Len(blocks[b].insts),
                            [liveuse |-> {}, def |-> {}])]
     IN /\ liveuse' = [b \in 1..NB |-> ls[b].liveuse]
        /\ def' = [b \in 1..NB |-> ls[b].def]
        /\ livein' = [b \in 1..NB |-> ls[b].liveuse]
        /\ liveout' = [b \in 1..NB |-> {}]
  /\ bbi' = 1
  /\ changed' = FALSE
  /\ pc' = "liveness"
  /\ UNCHANGED <<fvars, done, spilled_nodes, dfsvars, ivars, start_list,
                 allocated, scanvars>>

\* only succ[0]
Succs_First(b) == {blocks[b].succ[1]} \ {0}
Succs(b) == {blocks[b].succ[1], blocks[b].succ[2]} \ {0}

\* one block of one pass of the fixpoint loop; after the last block the pass
\* is repeated if anything changed, else liveness_analysis returns
LivenessVisit ==
  /\ pc = "liveness"
  /\ LET new_out == UNION {livein[s] : s \in Succs(bbi)}
         chg == new_out # liveout[bbi]
         changed1 == changed \/ chg
     IN /\ liveout' = IF chg THEN [liveout EXCEPT ![bbi] = new_out] ELSE liveout
        /\ livein' = IF chg
                     THEN [livein EXCEPT
                             ![bbi] = liveuse[bbi] \cup (new_out \ def[bbi])]
                     ELSE livein
        /\ IF bbi < NB
           THEN /\ bbi' = bbi + 1 /\ changed' = changed1 /\ pc' = pc
           ELSE IF changed1
                THEN /\ bbi' = 1 /\ changed' = FALSE /\ pc' = pc
                ELSE /\ bbi' = bbi /\ changed' = FALSE /\ pc' = "linearize"
  /\ UNCHANGED <<fvars, liveuse, def, done, spilled_nodes, round, dfsvars,
                 ivars, start_list, allocated, scanvars>>

\* liveout is kept from the call before
InitialSets_KeepOut(ls, prev) ==
  [liveuse |-> ls.liveuse, def |-> ls.def, livein |-> ls.liveuse,
   liveout |-> prev.liveout]
\* the sets of a block when the fixpoint loop begins: ls are its local sets,
\* prev the sets it held when liveness_analysis was called
InitialSets(ls, prev) ==
  [liveuse |-> ls.liveuse, def |-> ls.def, livein |-> ls.liveuse,
   liveout |-> {}]

\* the body of the fixpoint loop for block b; lv: the sets of every block
FixStep(bbs, lv, b) ==
  LET new_out == UNION {lv[s].livein :
                          s \in {bbs[b].succ[1], bbs[b].succ[2]} \ {0}}
  IN IF new_out # lv[b].liveout
     THEN [lv EXCEPT ![b].liveout = new_out,
                     ![b].livein = lv[b].liveuse \cup (new_out \ lv[b].def)]
     ELSE lv

\* one pass over the blocks b, b+1 ..
RECURSIVE FixPass(_, _, _)
FixPass(bbs, lv, b) ==
  IF b > Len(bbs) THEN lv ELSE FixPass(bbs, FixStep(bbs, lv, b), b + 1)

\* while (changed): a pass changes a set exactly when it sets changed
RECURSIVE Fixpoint(_, _)
Fixpoint(bbs, lv) ==
  LET nxt == FixPass(bbs, lv, 1)
  IN IF nxt = lv THEN lv ELSE Fixpoint(bbs, nxt)

\* one whole call: the sets of every block when liveness_analysis returns
liveness_analysis(bbs, prev) ==
  Fixpoint(bbs,
           [b \in 1..Len(bbs) |->
              InitialSets(LocalSets(bbs[b].insts, 1, Len(bbs[b].insts),
                                    [liveuse |-> {}, def |-> {}]),
                          prev[b])])

(***************************************************************************)
(* Linearisation and numbering                                             *)
(***************************************************************************)
DfsStart ==
  /\ pc = "linearize"
  /\ spilled_nodes' = {}
  /\ stack' = <<1>>
  /\ visited' = {1}
  /\ dfs' = <<>>
  /\ pc' = "dfs"
  /\ UNCHANGED <<fvars, livevars, done, round, bbi, changed, ivars,
                 start_list, allocated, scanvars>>

\* succ[0] is tested against the set as it was before succ[1] went in
PushSuccs_Twice(temp, vis) ==
  LET s1 == blocks[temp].succ[2]
      s0 == blocks[temp].succ[1]
      p1 == IF s1 # 0 /\ s1 \notin vis THEN <<s1>> ELSE <<>>
      p0 == IF s0 # 0 /\ s0 \notin vis THEN <<s0>> ELSE <<>>
  IN p1 \o p0
\* the successors pushed by one pop: succ[1] first, then succ[0]
PushSuccs(temp, vis) ==
  LET s1 == blocks[temp].succ[2]
      s0 == blocks[temp].succ[1]
      p1 == IF s1 # 0 /\ s1 \notin vis THEN <<s1>> ELSE <<>>
      p0 == IF s0 # 0 /\ s0 \notin (vis \cup Range(p1)) THEN <<s0>> ELSE <<>>
  IN p1 \o p0

DfsPop ==
  /\ pc = "dfs"
  /\ stack # <<>>
  /\ LET temp == stack[Len(stack)]
         push == PushSuccs(temp, visited)
     IN /\ dfs' = Append(dfs, temp)
        /\ stack' = SubSeq(stack, 1, Len(stack) - 1) \o push
        /\ visited' = visited \cup Range(push)
  /\ UNCHANGED <<fvars, livevars, done, spilled_nodes, round, pc, bbi, changed,
                 ivars, start_list, allocated, scanvars>>

\* instructions of the blocks dfs[1..k-1]
RECURSIVE InstsBefore(_, _, _)
InstsBefore(bbs, order, k) ==
  IF k <= 1 THEN 0
  ELSE InstsBefore(bbs, order, k - 1) + Len(bbs[order[k - 1]].insts)

\* inst2int: the index of every instruction of the visited blocks
Numbering(bbs, order) ==
  LET PosOf(b) == CHOOSE k \in 1..Len(order) : order[k] = b
      keys == UNION {{<<b, i>> : i \in 1..Len(bbs[b].insts)} : b \in Range(order)}
  IN [key \in keys |-> InstsBefore(bbs, order, PosOf(key[1])) + key[2]]

\* def slots of the instructions lo..hi of block b, in order
RECURSIVE BlockDefs(_, _, _, _)
BlockDefs(bbs, b, lo, hi) ==
  IF lo > hi THEN <<>>
  ELSE IF lo = hi THEN DefSlots(bbs, b, lo)
  ELSE LET mid == (lo + hi) \div 2
       IN BlockDefs(bbs, b, lo, mid) \o BlockDefs(bbs, b, mid + 1, hi)

\* def slots of the blocks order[k..], in visiting order
RECURSIVE DefList(_, _, _)
DefList(bbs, order, k) ==
  IF k > Len(order) THEN <<>>
  ELSE BlockDefs(bbs, order[k], 1, Len(bbs[order[k]].insts))
       \o DefList(bbs, order, k + 1)

NumberInsts ==
  /\ pc = "dfs"
  /\ stack = <<>>
  /\ LET num == Numbering(blocks, dfs)
         dl == DefList(blocks, dfs, 1)
     IN /\ inst2int' = num
        /\ start_list' = dl
        /\ operand2start' = [p \in Range(dl) |-> num[<<p[1], p[2]>>]]
        /\ operand2end' = [p \in Range(dl) |-> num[<<p[1], p[2]>>]]
        /\ inverse_ptr' =
             [o \in {Deref(blocks, p) : p \in Range(dl)} |->
                SelectSeq(dl, LAMBDA p : Deref(blocks, p) = o)]
        /\ allocated' = EmptyMap
  /\ pc' = "intervals"
  /\ UNCHANGED <<fvars, livevars, done, spilled_nodes, round, bbi, changed,
                 dfsvars, scanvars>>

(***************************************************************************)
(* Live intervals                                                          *)
(***************************************************************************)
\* the working set `live' of the reverse walk over block b when the walk
\* reaches instruction i, put in front of the sets acc of i+1 .. Len
LiveStep(b, i, acc) ==
  IF acc = <<>> THEN <<liveout[b]>>
  ELSE LET dead == {Deref(blocks, p) : p \in Range(DefSlots(blocks, b, i + 1))}
           gen == {Deref(blocks, p) : p \in Range(UseSlots(blocks, b, i + 1))}
       IN <<(acc[1] \ dead) \cup gen>> \o acc

\* the walk over the instructions hi, hi-1 .. lo of block b
RECURSIVE LiveSeq(_, _, _, _)
LiveSeq(b, lo, hi, acc) ==
  IF lo > hi THEN acc
  ELSE IF lo = hi THEN LiveStep(b, lo, acc)
  ELSE LET mid == (lo + hi) \div 2
           half == LiveSeq(b, mid + 1, hi, acc)
       IN IF half = acc THEN LiveSeq(b, lo, mid, acc)
          ELSE LiveSeq(b, lo, mid, half)

\* the indices of the instructions at which operand o is in `live'
RECURSIVE LiveIndices(_, _)
LiveIndices(o, k) ==
  IF k > Len(dfs) THEN {}
  ELSE LET b == dfs[k]
           ls == LiveSeq(b, 1, Len(blocks[b].insts), <<>>)
       IN {inst2int[<<b, i>>] : i \in {j \in 1..Len(ls) : o \in ls[j]}}
          \cup LiveIndices(o, k + 1)

SetMin(S) == CHOOSE x \in S : \A y \in S : x <= y
SetMax(S) == CHOOSE x \in S : \A y \in S : y <= x

\* operand2start and operand2end after the walk over all visited blocks:
\* every def slot listed in inverse_ptr under a live operand is stretched to
\* the index of every instruction where that operand is live
WalkBlocks(s0, e0) ==
  LET at == [o \in DOMAIN inverse_ptr |-> LiveIndices(o, 1)]
      hits(p) == UNION {at[o] : o \in {x \in DOMAIN inverse_ptr :
                                           p \in Range(inverse_ptr[x])}}
  IN [s |-> [p \in DOMAIN s0 |-> SetMin({s0[p]} \cup hits(p))],
      e |-> [p \in DOMAIN e0 |-> SetMax({e0[p]} \cup hits(p))]]

BuildIntervals ==
  /\ pc = "intervals"
  /\ LET se == WalkBlocks(operand2start, operand2end)
     IN /\ operand2start' = se.s
        /\ operand2end' = se.e
  /\ pc' = "pool"
  /\ UNCHANGED <<fvars, livevars, done, spilled_nodes, round, bbi, changed,
                 dfsvars, inst2int, inverse_ptr, start_list, allocated,
                 scanvars>>

(***************************************************************************)
(* Linear scan                                                             *)
(***************************************************************************)
PoolLo == 4
PoolHi == 12
Pool == PoolLo..PoolHi

\* every use slot, and every def or use slot, of the blocks of a list
UseSlotsOf(bbs, order) ==
  UNION {UNION {Range(UseSlots(bbs, b, i)) : i \in 1..Len(bbs[b].insts)} :
           b \in Range(order)}
DefSlotsOf(bbs, order) ==
  UNION {UNION {Range(DefSlots(bbs, b, i)) : i \in 1..Len(bbs[b].insts)} :
           b \in Range(order)}
VisitedSlots(bbs, order) == DefSlotsOf(bbs, order) \cup UseSlotsOf(bbs, order)

\* the body of the inner loop of the bubble sort
BubbleStep(list, j, start) ==
  IF start[list[j]] > start[list[j + 1]]
  THEN [list EXCEPT ![j] = list[j + 1], ![j + 1] = list[j]]
  ELSE list

\* the inner loop for j = lo .. hi
RECURSIVE BubblePass(_, _, _, _)
BubblePass(list, lo, hi, start) ==
  IF lo > hi THEN list
  ELSE IF lo = hi THEN BubbleStep(list, lo, start)
  ELSE LET mid == (lo + hi) \div 2
           half == BubblePass(list, lo, mid, start)
       IN IF half = list THEN BubblePass(list, mid + 1, hi, start)
          ELSE BubblePass(half, mid + 1, hi, start)

\* the outer loop for i = hi, hi-1 .. lo
RECURSIVE BubbleSort(_, _, _, _)
BubbleSort(list, lo, hi, start) ==
  IF lo > hi THEN list
  ELSE IF lo = hi THEN BubblePass(list, 1, lo - 1, start)
  ELSE LET mid == (lo + hi) \div 2
           half == BubbleSort(list, mid + 1, hi, start)
       IN IF half = list THEN BubbleSort(list, lo, mid, start)
          ELSE BubbleSort(half, lo, mid, start)

\* the pass that moves the last entry of active down to its place
RECURSIVE SinkLast(_, _, _)
SinkLast(act, k, end) ==
  IF k < 2 THEN act
  ELSE IF end[act[k]] < end[act[k - 1]]
       THEN SinkLast([act EXCEPT ![k] = act[k - 1], ![k - 1] = act[k]],
                     k - 1, end)
       ELSE SinkLast(act, k - 1, end)

PoolInit ==
  /\ pc = "pool"
  /\ LET marked == {Deref(blocks, p).value :
                      p \in {q \in VisitedSlots(blocks, dfs) :
                               Deref(blocks, q).state \in
                                 {"Allocated", "PreColored"}}}
     IN used' = [k \in 0..PoolHi |-> IF k \in marked THEN 1 ELSE 0]
  /\ active' = <<>>
  /\ alloc' = EmptyMap
  /\ start_list' = BubbleSort(start_list, 2, Len(start_list), operand2start)
  /\ si' = 1
  /\ pc' = "scan"
  /\ UNCHANGED <<fvars, livevars, done, spilled_nodes, round, bbi, changed,
                 dfsvars, ivars, allocated>>

InsertNew(m, k, v) == IF k \in DOMAIN m THEN m ELSE m @@ (k :> v)
Erase(m, k) == [x \in DOMAIN m \ {k} |-> m[x]]

\* leading entries of active whose interval ends before s
Expired(act, s) ==
  CHOOSE n \in 0..Len(act) :
    /\ \A j \in 1..n : operand2end[act[j]] < s
    /\ n < Len(act) => operand2end[act[n + 1]] >= s

\* a scan that also takes the defs that already hold a register
Scannable_Allocated(o) == o.state \in {"Virtual", "Allocated"}
\* if (def->state == MachineOperand::State::Virtual)
Scannable(o) == o.state = "Virtual"

\* one iteration of the loop over start_list
ScanStep ==
  /\ pc = "scan"
  /\ si <= Len(start_list)
  /\ si' = si + 1
  /\ LET d == start_list[si]
         o == Deref(blocks, d)
         expire == Expired(active, operand2start[d])
         freed == {Deref(blocks, active[j]).value : j \in 1..expire}
         used1 == [k \in DOMAIN used |-> IF k \in freed THEN 0 ELSE used[k]]
         active1 == SubSeq(active, expire + 1, Len(active))
         free == {k \in Pool : used1[k] = 0}
         Give(bbs, id) == Assign(bbs, d, Alloc(id))
     IN IF ~Scannable(o)
        THEN UNCHANGED <<blocks, spilled_nodes, allocated, used, active,
                         alloc, pc>>
        ELSE IF o \in DOMAIN allocated
        THEN /\ blocks' = Give(blocks, allocated[o])
             /\ alloc' = InsertNew(alloc, d, o.value)
             /\ used' = used1
             /\ active' = active1
             /\ UNCHANGED <<spilled_nodes, allocated, pc>>
        ELSE IF free # {}
        THEN LET id == CHOOSE k \in free : \A j \in free : k <= j
             IN /\ allocated' = (o :> id) @@ allocated
                /\ used' = [used1 EXCEPT ![id] = 1]
                /\ active' = SinkLast(Append(active1, d), Len(active1) + 1,
                                      operand2end)
                /\ blocks' = Give(blocks, id)
                /\ alloc' = InsertNew(alloc, d, o.value)
                /\ UNCHANGED <<spilled_nodes, pc>>
        ELSE IF active1 = <<>>
        THEN \* active[active.size() - 1] of an empty vector.  All pool
             \* registers are then marked by operands of the input, active
             \* never held an entry and has no buffer: the read is outside
             \* the address space and the run ends there
             /\ pc' = "fault"
             /\ UNCHANGED <<blocks, spilled_nodes, allocated, used, active,
                            alloc>>
        ELSE LET sp_node == active1[Len(active1)]
                 active_last == operand2end[sp_node]
                 now_last == operand2end[d]
             IN IF now_last > active_last
                THEN /\ spilled_nodes' = spilled_nodes \cup {o}
                     /\ used' = used1
                     /\ active' = active1
                     /\ UNCHANGED <<blocks, allocated, alloc, pc>>
                ELSE LET id == Deref(blocks, sp_node).value
                         orig == V(alloc[sp_node])
                     IN /\ active' = SinkLast([active1 EXCEPT
                                                 ![Len(active1)] = d],
                                              Len(active1), operand2end)
                        /\ allocated' = Erase((o :> id) @@ allocated, orig)
                        /\ blocks' = Give(Assign(blocks, sp_node, orig), id)
                        /\ alloc' = InsertNew(Erase(alloc, sp_node), d, o.value)
                        /\ spilled_nodes' = spilled_nodes \cup {orig}
                        /\ used' = used1
                        /\ pc' = pc
  /\ UNCHANGED <<stack_size, virtual_max, livevars, done, round, bbi, changed,
                 dfsvars, ivars, start_list>>

\* the uses of the visited blocks take the register of their operand
ResolveUses ==
  /\ pc = "scan"
  /\ si > Len(start_list)
  /\ LET slots == UseSlotsOf(blocks, dfs)
         virt == {p \in slots : Deref(blocks, p).state = "Virtual"}
         hit == {p \in virt : Deref(blocks, p) \in DOMAIN allocated}
         Resolve(b, i, inst) ==
           [f \in DOMAIN inst |->
              IF <<b, i, f>> \in hit THEN Alloc(allocated[inst[f]])
              ELSE inst[f]]
     IN /\ blocks' = [b \in 1..NB |->
                        [blocks[b] EXCEPT
                           !.insts = [i \in 1..Len(blocks[b].insts) |->
                                        Resolve(b, i, blocks[b].insts[i])]]]
        /\ alloc' = alloc @@ [p \in hit |-> Deref(blocks, p).value]
        /\ spilled_nodes' =
             spilled_nodes \cup {Deref(blocks, p) : p \in virt \ hit}
  /\ pc' = "resolved"
  /\ UNCHANGED <<stack_size, virtual_max, livevars, done, round, bbi, changed,
                 dfsvars, ivars, start_list, allocated, used, active, si>>

Finish ==
  /\ pc = "resolved"
  /\ spilled_nodes = {}
  /\ done' = TRUE
  /\ pc' = "done"
  /\ UNCHANGED <<fvars, livevars, spilled_nodes, round, bbi, changed, dfsvars,
                 ivars, start_list, allocated, scanvars>>

(***************************************************************************)
(* Spill rewriting                                                         *)
(***************************************************************************)
Imm12 == 4096
Window == 30
SlotBytes == 4

InsertBefore(insts, at, new) ==
  SubSeq(insts, 1, at - 1) \o new \o SubSeq(insts, at, Len(insts))

\* the same with the test offset <= (1u << 12u)
generate_access_offset_Inclusive(access_inst, offset, vmax, rnd) ==
  IF offset <= Imm12
  THEN [new |-> <<[access_inst EXCEPT !.offset = I(offset)]>>, vmax |-> vmax]
  ELSE [new |-> <<[MIMove(V(vmax), I(offset)) EXCEPT !.born = rnd],
                  [access_inst EXCEPT !.offset = V(vmax)]>>,
        vmax |-> vmax + 1]

\* the access with its offset set, preceded by the move of the offset into a
\* fresh virtual register when the offset does not fit 12 bits
generate_access_offset(access_inst, offset, vmax, rnd) ==
  IF offset < Imm12
  THEN [new |-> <<[access_inst EXCEPT !.offset = I(offset)]>>, vmax |-> vmax]
  ELSE [new |-> <<[MIMove(V(vmax), I(offset)) EXCEPT !.born = rnd],
                  [access_inst EXCEPT !.offset = V(vmax)]>>,
        vmax |-> vmax + 1]

\* w: the walk over one block for the spilled operand; first_use and
\* last_def are instruction indices, 0 for nullptr
checkpoint(w, offset, rnd) ==
  LET ld == IF w.first_use # 0
            THEN generate_access_offset(
                   [MILoad(V(w.vreg), R(sp), NoOperand) EXCEPT !.born = rnd],
                   offset, w.vmax, rnd)
            ELSE [new |-> <<>>, vmax |-> w.vmax]
      n1 == Len(ld.new)
      insts1 == IF w.first_use # 0
                THEN InsertBefore(w.insts, w.first_use, ld.new) ELSE w.insts
      pos1 == IF w.first_use # 0 /\ w.pos >= w.first_use
              THEN w.pos + n1 ELSE w.pos
      last_def1 == IF w.last_def # 0 /\ w.first_use # 0
                      /\ w.last_def >= w.first_use
                   THEN w.last_def + n1 ELSE w.last_def
      st == IF last_def1 # 0
            THEN generate_access_offset(
                   [MIStore(V(w.vreg), R(sp), NoOperand) EXCEPT !.born = rnd],
                   offset, ld.vmax, rnd)
            ELSE [new |-> <<>>, vmax |-> ld.vmax]
      insts2 == IF last_def1 # 0
                THEN InsertBefore(insts1, last_def1 + 1, st.new) ELSE insts1
      pos2 == IF last_def1 # 0 /\ pos1 > last_def1
              THEN pos1 + Len(st.new) ELSE pos1
  IN [w EXCEPT !.insts = insts2, !.pos = pos2, !.vmax = st.vmax,
               !.first_use = 0, !.last_def = 0, !.vreg = -1]

\* the body of the loop over orig_inst, up to the checkpoint test
VisitInst(w, n) ==
  LET inst == w.insts[w.pos]
      du == get_def_use_ptr(inst)
      isdef == du.def # "none" /\ inst[du.def] = n
      vreg1 == IF isdef /\ w.vreg = -1 THEN w.vmax ELSE w.vreg
      vmax1 == IF isdef /\ w.vreg = -1 THEN w.vmax + 1 ELSE w.vmax
      inst1 == IF isdef THEN [inst EXCEPT ![du.def] = V(vreg1)] ELSE inst
      last_def1 == IF isdef THEN w.pos ELSE w.last_def
      hit == {u \in Range(du.use) : inst1[u] = n}
      vreg2 == IF hit # {} /\ vreg1 = -1 THEN vmax1 ELSE vreg1
      vmax2 == IF hit # {} /\ vreg1 = -1 THEN vmax1 + 1 ELSE vmax1
      inst2 == [f \in DOMAIN inst1 |->
                  IF f \in hit THEN V(vreg2) ELSE inst1[f]]
      first_use1 == IF hit # {} /\ w.first_use = 0 /\ last_def1 = 0
                    THEN w.pos ELSE w.first_use
  IN [w EXCEPT !.insts = [w.insts EXCEPT ![w.pos] = inst2],
               !.vreg = vreg2, !.vmax = vmax2,
               !.first_use = first_use1, !.last_def = last_def1]

\* if (i++ > 30) checkpoint();
WindowCheck(w, offset, rnd) ==
  IF w.i > Window THEN checkpoint(w, offset, rnd) ELSE w
NextInst(w) == [w EXCEPT !.pos = w.pos + 1, !.i = w.i + 1]

\* one iteration of the loop over orig_inst, if an instruction is left
WalkStep(w, n, offset, rnd) ==
  IF w.pos > Len(w.insts) THEN w
  ELSE NextInst(WindowCheck(VisitInst(w, n), offset, rnd))

\* k iterations
RECURSIVE WalkSteps(_, _, _, _, _)
WalkSteps(w, k, n, offset, rnd) ==
  IF k <= 0 THEN w
  ELSE IF k = 1 THEN WalkStep(w, n, offset, rnd)
  ELSE LET half == WalkSteps(w, k \div 2, n, offset, rnd)
       IN IF half = w THEN w
          ELSE WalkSteps(half, k - (k \div 2), n, offset, rnd)

\* the loop over orig_inst until the end of the list, and the last checkpoint
RECURSIVE WalkBlock(_, _, _, _)
WalkBlock(w, n, offset, rnd) ==
  IF w.pos > Len(w.insts) THEN checkpoint(w, offset, rnd)
  ELSE WalkBlock(WalkSteps(w, Len(w.insts) - w.pos + 1, n, offset, rnd),
                 n, offset, rnd)

StartWalk(f, b) ==
  [insts |-> f.bbs[b].insts, pos |-> 1, i |-> 0, vreg |-> -1,
   first_use |-> 0, last_def |-> 0, vmax |-> f.vmax]
EndWalk(f, b, w) ==
  [bbs |-> [f.bbs EXCEPT ![b].insts = w.insts], vmax |-> w.vmax]

\* the loop over the blocks for one spilled operand n; f: [bbs, vmax]
RECURSIVE RewriteBlocks(_, _, _, _, _)
RewriteBlocks(f, b, n, offset, rnd) ==
  IF b > Len(f.bbs) THEN f
  ELSE RewriteBlocks(
         EndWalk(f, b, WalkBlock(StartWalk(f, b), n, offset, rnd)),
         b + 1, n, offset, rnd)

\* the elements of a set of Virtual operands in the order of std::set
RECURSIVE Ascending(_)
Ascending(S) ==
  IF S = {} THEN <<>>
  ELSE LET m == CHOOSE x \in S : \A y \in S : x.value <= y.value
       IN <<m>> \o Ascending(S \ {m})

\* a slot of two words
NextSlot_TwoWords(g, stk) ==
  [bbs |-> g.bbs, vmax |-> g.vmax, stack |-> stk + 2 * SlotBytes]
\* f->stack_size += 4 after the blocks g have been rewritten for one operand
NextSlot(g, stk) == [bbs |-> g.bbs, vmax |-> g.vmax, stack |-> stk + SlotBytes]

\* the offset is the stack size the round began with
SlotOffset_RoundStart(f, k) == f.stack - SlotBytes * (k - 1)
\* auto offset = f->stack_size, for the k-th spilled operand of the round
SlotOffset(f, k) == f.stack

\* the loop over spilled_nodes; f: [bbs, vmax, stack]
RECURSIVE RewriteNodes(_, _, _, _)
RewriteNodes(f, nodes, k, rnd) ==
  IF k > Len(nodes) THEN f
  ELSE RewriteNodes(
         NextSlot(RewriteBlocks(f, 1, nodes[k], SlotOffset(f, k), rnd),
                  f.stack),
         nodes, k + 1, rnd)

\* every slot recorded in alloc is Virtual again, with its old value
Restore(bbs, al) ==
  [b \in 1..Len(bbs) |->
     [bbs[b] EXCEPT
        !.insts = [i \in 1..Len(bbs[b].insts) |->
                     [f \in DOMAIN bbs[b].insts[i] |->
                        IF <<b, i, f>> \in DOMAIN al THEN V(al[<<b, i, f>>])
                        ELSE bbs[b].insts[i][f]]]]]

Rewrite ==
  /\ pc = "resolved"
  /\ spilled_nodes # {}
  /\ done' = FALSE
  /\ \E f \in {RewriteNodes([bbs |-> Restore(blocks, alloc),
                             vmax |-> virtual_max, stack |-> stack_size],
                            Ascending(spilled_nodes), 1, round)} :
       /\ blocks' = f.bbs
       /\ virtual_max' = f.vmax
       /\ stack_size' = f.stack
  \* the locals of the loop body go out of scope
  /\ visited' = {} /\ dfs' = <<>> /\ stack' = <<>>
  /\ inst2int' = EmptyMap /\ operand2start' = EmptyMap
  /\ operand2end' = EmptyMap /\ inverse_ptr' = EmptyMap
  /\ start_list' = <<>> /\ allocated' = EmptyMap
  /\ used' = [k \in 0..PoolHi |-> 0] /\ active' = <<>> /\ alloc' = EmptyMap
  /\ si' = 1
  /\ pc' = "loop"
  /\ UNCHANGED <<livevars, spilled_nodes, round, bbi, changed>>

(***************************************************************************)
(* Input functions                                                         *)
(***************************************************************************)
MaxDefs == 12
MaxLen == 4
MaxBlocks == 3

Block(insts, succ) == [insts |-> insts, succ |-> succ]
Func(bbs, vmax, stk) == [bbs |-> bbs, vmax |-> vmax, stack |-> stk]
UseOf(v) == MIStore(V(v), R(sp), I(0))

\* nd virtual registers are defined, a call may follow, then every one of
\* them is read; the reads are in a second block if split
PressureFunc(nd, call, pairs, split, stk) ==
  LET defs == [k \in 1..nd |-> MIGlobal(V(k - 1))]
      mid == IF call THEN <<MICall(0)>> ELSE <<>>
      uses == IF pairs
              THEN [k \in 1..(nd \div 2) |->
                      MICompare(V(2 * k - 2), V(2 * k - 1))]
                   \o (IF nd % 2 = 1 THEN <<UseOf(nd - 1)>> ELSE <<>>)
              ELSE [k \in 1..nd |-> UseOf(k - 1)]
  IN IF split
     THEN Func(<<Block(defs \o mid, <<2, 0>>), Block(uses, <<0, 0>>)>>, nd, stk)
     ELSE Func(<<Block(defs \o mid \o uses, <<0, 0>>)>>, nd, stk)

StackChoices == {0, 4000, 4092, 5000}
PoolSize == PoolHi - PoolLo + 1

\* as many registers as the pool has, one more, and MaxDefs
PressureFuncs ==
  {PressureFunc(nd, call, pairs, split, stk) :
     nd \in {PoolSize, PoolSize + 1, MaxDefs}, call \in BOOLEAN,
     pairs \in BOOLEAN, split \in BOOLEAN, stk \in StackChoices}

\* the defs of nd virtual registers, a read of each but the first, and
\* last an increment of the first
LateUseFunc(nd) ==
  Func(<<Block([k \in 1..nd |-> MIGlobal(V(k - 1))]
               \o [k \in 1..(nd - 1) |-> UseOf(k)]
               \o <<MIBinary(V(0), V(0), I(1))>>, <<0, 0>>)>>, nd, 0)

\* straight-line code over two virtual registers
LineInsts ==
  {MIGlobal(V(0)), MIGlobal(V(1)), UseOf(0), UseOf(1), MIMove(V(1), V(0))}
LineFuncs ==
  {Func(<<Block(insts, <<0, 0>>)>>, 2, 0) : insts \in [1..MaxLen -> LineInsts]}

\* control flow: block b reads the register of the next block, writes its
\* own and compares it with r0; it falls through or stops, and may branch
\* to the entry or to the last block
CfgBody(b, nb) ==
  <<UseOf(b % nb), MIGlobal(V(b - 1)), MICompare(V(b - 1), R(r0))>>
CfgSuccs(b, nb) ==
  {<<s0, s1>> : s0 \in {0, IF b < nb THEN b + 1 ELSE 0}, s1 \in {0, 1, nb}}
CfgFuncs ==
  {Func([b \in 1..MaxBlocks |-> Block(CfgBody(b, MaxBlocks), succ[b])],
        MaxBlocks, 0) :
     succ \in {g \in [1..MaxBlocks -> (0..MaxBlocks) \X (0..MaxBlocks)] :
                 \A b \in 1..MaxBlocks : g[b] \in CfgSuccs(b, MaxBlocks)}}

\* programs without Virtual operands: every register is already chosen
ColoredInsts ==
  {MIGlobal(Alloc(PoolLo)), MIMove(Alloc(PoolLo + 1), Alloc(PoolLo)),
   MIStore(Alloc(PoolLo + 1), R(sp), I(0)), MIMove(R(r0), Alloc(PoolLo)),
   MICall(1), MIReturn}
ColoredFuncs ==
  {Func(<<Block(<<i1, i2>>, <<2, 0>>), Block(<<i3>>, <<0, s>>)>>, 0, stk) :
     i1 \in ColoredInsts, i2 \in ColoredInsts, i3 \in ColoredInsts,
     s \in {0, 1}, stk \in {0, 8}}

\* an instruction of a kind get_def_use does not know ends the first block
JumpFuncs ==
  {Func(<<Block(<<i1, MIJump>>, <<2, 0>>), Block(<<i2, MIReturn>>, <<0, 0>>)>>,
        2, 0) : i1 \in LineInsts, i2 \in LineInsts}

\* one block more than CfgFuncs: the entry branches to blocks 2 and 3, and
\* block 2 to block 3 and to the last block
CrossSuccs(b, nb) ==
  IF b = 1 THEN {<<2, 3>>}
  ELSE IF b = 2 THEN {<<3, nb>>, <<nb, 3>>}
  ELSE IF b < nb THEN {<<0, 0>>, <<b + 1, 0>>}
  ELSE {<<0, 0>>, <<1, 0>>}
CrossFuncs ==
  {Func([b \in 1..(MaxBlocks + 1) |->
           Block(CfgBody(b, MaxBlocks + 1), succ[b])], MaxBlocks + 1, 0) :
     succ \in {g \in [1..(MaxBlocks + 1) ->
                        (0..(MaxBlocks + 1)) \X (0..(MaxBlocks + 1))] :
                 \A b \in 1..(MaxBlocks + 1) :
                   g[b] \in CrossSuccs(b, MaxBlocks + 1)}}

\* the registers of the pool but the last, and all of them, as PreColored
\* operands
PreColorMost ==
  <<MIFma(R(PoolLo), R(PoolLo + 1), R(PoolLo + 2), R(PoolLo + 3)),
    MIFma(R(PoolLo + 4), R(PoolLo + 5), R(PoolLo + 6), R(PoolHi - 1))>>
PreColorAll == PreColorMost \o <<MIMove(R(PoolHi), I(0))>>

SatTails ==
  {<<MIGlobal(V(0)), UseOf(0)>>,
   <<MIGlobal(V(0)), MIGlobal(V(0)), UseOf(0)>>}

\* the function uses pool registers itself, then writes and reads virtual
\* registers: one register is left for them, or none
SatFuncs ==
  {Func(<<Block(PreColorMost \o tail, <<0, 0>>)>>, 2, 0) : tail \in SatTails}
    \cup {Func(<<Block(PreColorAll \o <<MIGlobal(V(0)), UseOf(0)>>,
                       <<0, 0>>)>>, 1, 0)}

\* a block where more than Window + 1 instructions precede the defs of one
\* virtual register more than the pool has
LongFunc ==
  LET pad == [k \in 1..(Window + 2) |-> MICompare(R(r0), I(0))]
      f == PressureFunc(PoolSize + 1, FALSE, TRUE, FALSE, 0)
  IN Func(<<Block(pad \o f.bbs[1].insts, <<0, 0>>)>>, f.vmax, 0)

\* one virtual register more than the pool has is written in the first
\* block; the second block begins with a multiply-add into register t and
\* then reads every register
AccumFuncs ==
  {Func(<<Block([k \in 1..(PoolSize + 1) |-> MIGlobal(V(k - 1))], <<2, 0>>),
          Block(<<MIFma(V(t), I(2), I(3), I(0))>>
                \o [k \in 1..(PoolSize + 1) |-> UseOf(k - 1)], <<0, 0>>)>>,
        PoolSize + 1, 0) : t \in {0, PoolSize}}

Funcs ==
  PressureFuncs \cup {LateUseFunc(PoolSize + 1)} \cup LineFuncs \cup CfgFuncs
    \cup ColoredFuncs \cup JumpFuncs \cup CrossFuncs \cup SatFuncs
    \cup {LongFunc} \cup AccumFuncs

Init ==
  /\ \E f \in Funcs :
       /\ blocks = f.bbs
       /\ virtual_max = f.vmax
       /\ stack_size = f.stack
  /\ liveuse = [b \in 1..NB |-> {}]
  /\ def = [b \in 1..NB |-> {}]
  /\ livein = [b \in 1..NB |-> {}]
  /\ liveout = [b \in 1..NB |-> {}]
  /\ done = FALSE
  /\ spilled_nodes = {}
  /\ round = 0
  /\ pc = "loop"
  /\ bbi = 1
  /\ changed = FALSE
  /\ visited = {} /\ dfs = <<>> /\ stack = <<>>
  /\ inst2int = EmptyMap /\ operand2start = EmptyMap
  /\ operand2end = EmptyMap /\ inverse_ptr = EmptyMap
  /\ start_list = <<>> /\ allocated = EmptyMap
  /\ used = [k \in 0..PoolHi |-> 0] /\ active = <<>> /\ alloc = EmptyMap
  /\ si = 1

Next ==
  \/ LivenessLocal
  \/ LivenessVisit
  \/ DfsStart
  \/ DfsPop
  \/ NumberInsts
  \/ BuildIntervals
  \/ PoolInit
  \/ ScanStep
  \/ ResolveUses
  \/ Finish
  \/ Rewrite

Spec == Init /\ [][Next]_vars

(***************************************************************************)
(* liveness_analysis on its own: it is called again and again on a         *)
(* function that nobody changes in between.  The sets it finds in the      *)
(* blocks at the first call are left over from elsewhere.                  *)
(***************************************************************************)
StaleSets == {{}, {V(0)}, {V(1), R(r0)}}

InitLive ==
  /\ \E f \in CfgFuncs \cup LineFuncs :
       /\ blocks = f.bbs
       /\ virtual_max = f.vmax
       /\ stack_size = f.stack
  /\ \E lu \in StaleSets, df \in StaleSets, li \in StaleSets,
        lo \in StaleSets :
       /\ liveuse = [b \in 1..NB |-> lu]
       /\ def = [b \in 1..NB |-> df]
       /\ livein = [b \in 1..NB |-> li]
       /\ liveout = [b \in 1..NB |-> lo]
  /\ done = FALSE
  /\ spilled_nodes = {}
  /\ round = 0
  /\ pc = "loop"
  /\ bbi = 1
  /\ changed = FALSE
  /\ visited = {} /\ dfs = <<>> /\ stack = <<>>
  /\ inst2int = EmptyMap /\ operand2start = EmptyMap
  /\ operand2end = EmptyMap /\ inverse_ptr = EmptyMap
  /\ start_list = <<>> /\ allocated = EmptyMap
  /\ used = [k \in 0..PoolHi |-> 0] /\ active = <<>> /\ alloc = EmptyMap
  /\ si = 1

\* one call of liveness_analysis(f); round counts the calls
Analyse ==
  /\ pc = "loop"
  /\ round < MaxRounds
  /\ round' = round + 1
  /\ \E lv \in {liveness_analysis(
                   blocks,
                   [b \in 1..NB |->
                      [liveuse |-> liveuse[b], def |-> def[b],
                       livein |-> livein[b], liveout |-> liveout[b]]])} :
       /\ liveuse' = [b \in 1..NB |-> lv[b].liveuse]
       /\ def' = [b \in 1..NB |-> lv[b].def]
       /\ livein' = [b \in 1..NB |-> lv[b].livein]
       /\ liveout' = [b \in 1..NB |-> lv[b].liveout]
  /\ UNCHANGED <<fvars, done, spilled_nodes, pc, bbi, changed, dfsvars, ivars,
                 start_list, allocated, scanvars>>

NextLive == Analyse

SpecLive == InitLive /\ [][NextLive]_vars

(***************************************************************************)
(* Properties                                                              *)
(***************************************************************************)
\* the def slots that hold a register given to them in the current round
AssignedDefs ==
  {p \in DOMAIN operand2start :
     p \in DOMAIN alloc /\ Deref(blocks, p).state = "Allocated"}

Overlap(p, q) ==
  /\ operand2start[p] <= operand2end[q]
  /\ operand2start[q] <= operand2end[p]

\* C1: when the allocation of a function is finished, two def slots of
\* distinct virtual registers that both got a physical register in the final
\* round and whose computed intervals overlap hold different registers
C1_NoInterference ==
  pc = "done" =>
    \A p \in AssignedDefs : \A q \in AssignedDefs :
      (alloc[p] # alloc[q] /\ Overlap(p, q))
        => Deref(blocks, p).value # Deref(blocks, q).value

OperandFields == {"dst", "lhs", "rhs", "acc", "addr", "offset", "data"}

\* the operand slots of block b that hold a Virtual operand
VirtualSlots(bbs, b) ==
  {p \in {b} \X (1..Len(bbs[b].insts)) \X OperandFields :
     Deref(bbs, p).state = "Virtual"}

\* C2: when the allocation of a function is finished, no operand of any
\* instruction of any block, reachable from the entry or not, is Virtual
C2_NoVirtualRemains ==
  pc = "done" => \A b \in 1..NB : VirtualSlots(blocks, b) = {}

\* C3: the driver loop of a function terminates: after finitely many rounds
\* a round spills nothing and the loop exits.  Over the rounds explored: a
\* run that gets as far as round MaxRounds spills nothing in that round
C3_Terminates ==
  (pc = "resolved" /\ round = MaxRounds) => spilled_nodes = {}

\* bbs is a single block that defines 10 distinct virtual registers, and
\* every read of one of them comes after all the defs
TenLiveBlock(bbs) ==
  /\ Len(bbs) = 1
  /\ LET defs == DefSlotsOf(bbs, <<1>>)
         uses == {p \in UseSlotsOf(bbs, <<1>>) :
                    Deref(bbs, p).state = "Virtual"}
         regs == {Deref(bbs, p) : p \in defs}
     IN /\ Cardinality(defs) = 10
        /\ Cardinality(regs) = 10
        /\ \A d \in regs : d.state = "Virtual"
        /\ regs = {Deref(bbs, p) : p \in uses}
        /\ \A p \in defs : \A q \in uses : p[2] < q[2]

\* C4: for a single block that defines 10 distinct virtual registers which
\* are all live at once, the first round puts at least 2 operands into the
\* spilled set
C4_ForcedSpill ==
  (pc = "resolved" /\ round = 1 /\ TenLiveBlock(Restore(blocks, alloc)))
    => Cardinality(spilled_nodes) >= 2

\* register v is written at i, read at j and not written in between
LiveRange(bbs, b, i, j, v) ==
  /\ i < j
  /\ \E p \in Range(DefSlots(bbs, b, i)) : Deref(bbs, p) = Alloc(v)
  /\ \E p \in Range(UseSlots(bbs, b, j)) : Deref(bbs, p) = Alloc(v)
  /\ \A k \in (i + 1)..(j - 1) :
       \A p \in Range(DefSlots(bbs, b, k)) : Deref(bbs, p) # Alloc(v)

\* C5: in the final allocation no register given to a virtual register that
\* is written before a call and read after it, without a write in between,
\* is one the call clobbers (r0-r3, lr, ip)
C5_CallClobber ==
  pc = "done" =>
    \A b \in 1..NB : \A c \in 1..Len(blocks[b].insts) :
      blocks[b].insts[c].kind = "MICall" =>
        \A i \in 1..(c - 1) : \A j \in (c + 1)..Len(blocks[b].insts) :
          \A v \in {r0, r0 + 1, r0 + 2, r3, lr, ip} :
            ~LiveRange(blocks, b, i, j, v)

NoVirtual(bbs) == \A b \in 1..Len(bbs) : VirtualSlots(bbs, b) = {}

\* C6: on a program without Virtual operands the allocation changes no
\* operand, inserts no instruction, keeps stack_size and virtual_max, spills
\* nothing and starts no round after the first
C6_Idempotent ==
  [][NoVirtual(blocks) =>
       /\ blocks' = blocks
       /\ stack_size' = stack_size
       /\ virtual_max' = virtual_max
       /\ spilled_nodes' = {}
       /\ (round' = round \/ round = 0)]_vars

\* a program that had no virtual register at all is finished after one round
C6_Witness ==
  pc = "done" /\ round = 1 /\ virtual_max = 0 /\ NoVirtual(blocks)

\* the virtual registers the rewrites of earlier rounds brought in: those of
\* the loads and stores they inserted
ReloadRegs(bbs) ==
  UNION {{bbs[b].insts[i].dst.value :
            i \in {k \in 1..Len(bbs[b].insts) :
                     /\ bbs[b].insts[k].born > 0
                     /\ bbs[b].insts[k].kind = "MILoad"
                     /\ bbs[b].insts[k].dst.state = "Virtual"}}
         \cup {bbs[b].insts[i].data.value :
                 i \in {k \in 1..Len(bbs[b].insts) :
                          /\ bbs[b].insts[k].born > 0
                          /\ bbs[b].insts[k].kind = "MIStore"
                          /\ bbs[b].insts[k].data.state = "Virtual"}} :
           b \in 1..Len(bbs)}

\* C7: a virtual register that the rewrite of an earlier round introduced as
\* a reload register is in the spilled set of no later round
C7_ReloadNeverSpilled ==
  pc = "resolved" =>
    \A o \in spilled_nodes : o.value \notin ReloadRegs(Restore(blocks, alloc))

\* the instructions of block b that the rewrite of round rnd inserted
Inserted(bbs, b, rnd) ==
  {i \in 1..Len(bbs[b].insts) : bbs[b].insts[i].born = rnd}

IsOffsetMove(bbs, b, i, rnd) ==
  /\ i >= 1
  /\ bbs[b].insts[i].kind = "MIMove"
  /\ bbs[b].insts[i].born = rnd

Occurrences(bbs, o) ==
  UNION {{p \in {b} \X (1..Len(bbs[b].insts)) \X OperandFields :
            Deref(bbs, p) = o} : b \in 1..Len(bbs)}

\* an inserted load or store goes through sp; its offset is the immediate
\* slot offset below 4096 and no move comes with it, or else it is a fresh
\* virtual register that exactly one move, placed right before the access,
\* sets to the immediate slot offset
AccessOk(bbs, b, i, rnd, slots, vmax) ==
  LET x == bbs[b].insts[i]
  IN CASE x.kind \in {"MILoad", "MIStore"} ->
            /\ x.addr = R(sp)
            /\ \/ /\ x.offset.state = "Immediate"
                  /\ x.offset.value \in slots
                  /\ x.offset.value < 4096
                  /\ ~IsOffsetMove(bbs, b, i - 1, rnd)
               \/ /\ x.offset.state = "Virtual"
                  /\ x.offset.value >= vmax
                  /\ Cardinality(Occurrences(bbs, x.offset)) = 2
                  /\ IsOffsetMove(bbs, b, i - 1, rnd)
                  /\ ~IsOffsetMove(bbs, b, i - 2, rnd)
                  /\ bbs[b].insts[i - 1].dst = x.offset
                  /\ bbs[b].insts[i - 1].rhs.state = "Immediate"
                  /\ bbs[b].insts[i - 1].rhs.value \in slots
                  /\ bbs[b].insts[i - 1].rhs.value >= 4096
       [] x.kind = "MIMove" ->
            /\ i < Len(bbs[b].insts)
            /\ bbs[b].insts[i + 1].born = rnd
            /\ bbs[b].insts[i + 1].kind \in {"MILoad", "MIStore"}
            /\ bbs[b].insts[i + 1].offset = x.dst
       [] OTHER -> FALSE

\* the slot offsets the rewrite of the current round hands out
SpillSlots ==
  {stack_size + 4 * (j - 1) : j \in 1..Cardinality(spilled_nodes)}

\* C8: every load or store the rewrite inserts is addressed via sp, with the
\* immediate slot offset when it is below 4096 and no move, and otherwise
\* with a fresh virtual register set by exactly one move right before it
C8_SpillAddressing ==
  [][(pc = "resolved" /\ pc' = "loop") =>
       \A b \in 1..Len(blocks') : \A i \in Inserted(blocks', b, round) :
         AccessOk(blocks', b, i, round, SpillSlots, virtual_max)]_vars

\* a rewrite has just inserted an access with an immediate offset and one
\* whose offset comes from a move
C8_Witness ==
  /\ pc = "loop"
  /\ round > 0
  /\ \E b \in 1..NB : \E i \in Inserted(blocks, b, round) :
       /\ blocks[b].insts[i].kind \in {"MILoad", "MIStore"}
       /\ blocks[b].insts[i].offset.state = "Immediate"
  /\ \E b \in 1..NB : \E i \in Inserted(blocks, b, round) :
       /\ blocks[b].insts[i].kind \in {"MILoad", "MIStore"}
       /\ blocks[b].insts[i].offset.state = "Virtual"

\* C9: a round with n operands in its spilled set adds exactly 4*n bytes to
\* stack_size; a round that spills nothing, and every other step, adds none
C9_FrameGrowth ==
  [][stack_size' = stack_size + (IF pc = "resolved"
                                 THEN 4 * Cardinality(spilled_nodes)
                                 ELSE 0)]_vars

\* the rewrite of a first round with 3 spilled operands has made 12 bytes
C9_Witness ==
  /\ pc = "loop"
  /\ round = 1
  /\ Cardinality(spilled_nodes) = 3
  /\ \E stk \in StackChoices : stack_size = stk + 12

\* C10: when liveness_analysis returns, liveout of every block is the union
\* of livein over its non-null successors, and livein is liveuse united with
\* liveout minus def
C10_LivenessEquations ==
  pc = "linearize" =>
    \A b \in 1..NB :
      /\ liveout[b] = UNION {livein[s] : s \in {blocks[b].succ[1],
                                                 blocks[b].succ[2]} \ {0}}
      /\ livein[b] = liveuse[b] \cup (liveout[b] \ def[b])

\* liveness_analysis has returned for a graph where a two-way branch back to
\* the entry carries live registers
C10_Witness ==
  /\ pc = "linearize"
  /\ \E b \in 1..NB :
       /\ blocks[b].succ[1] # 0
       /\ blocks[b].succ[2] = 1
       /\ liveout[b] # {}
       /\ liveout[b] # livein[blocks[b].succ[1]]

\* C11: a call of liveness_analysis that follows another call on the same
\* instructions and successors leaves liveuse, def, livein and liveout of
\* every block as the call before left them, whatever the sets were before
\* the first call
C11_LivenessStable ==
  [][(pc = "loop" /\ round >= 1) =>
       /\ liveuse' = liveuse
       /\ def' = def
       /\ livein' = livein
       /\ liveout' = liveout]_vars

\* a second call has returned on a graph where a block passes on a register
\* it neither reads nor writes
C11_Witness ==
  /\ pc = "loop"
  /\ round = 2
  /\ \E b \in 1..NB : ~(liveout[b] \subseteq (liveuse[b] \cup def[b]))

\* the sets the driver's own call reaches block by block are those of
\* liveness_analysis as one step
LivenessAgrees ==
  pc = "linearize" =>
    \E lv \in {liveness_analysis(
                  blocks, [b \in 1..NB |->
                             [liveuse |-> {}, def |-> {}, livein |-> {},
                              liveout |-> {}]])} :
      \A b \in 1..NB :
        /\ liveuse[b] = lv[b].liveuse /\ def[b] = lv[b].def
        /\ livein[b] = lv[b].livein /\ liveout[b] = lv[b].liveout

\* the kinds get_def_use has a branch for
KnownKinds ==
  {"MIBinary", "MILongMul", "MIFma", "MIMove", "MILoad", "MIStore",
   "MICompare", "MICall", "MIGlobal", "MIReturn"}

UnknownKind(bbs) ==
  \E b \in 1..Len(bbs) : \E i \in 1..Len(bbs[b].insts) :
    bbs[b].insts[i].kind \notin KnownKinds

\* C12: once def/use extraction has met an instruction of a kind that is not
\* one of the recognised kinds, the allocation is in a fatal error state; it
\* does not go on with an empty def/use result for that instruction
C12_UnknownKindFatal ==
  (UnknownKind(blocks) /\ round >= 1) => pc = "fault"

\* the blocks that can be reached from the blocks S along successor edges
RECURSIVE ReachFrom(_, _)
ReachFrom(bbs, S) ==
  LET T == S \cup UNION {{bbs[b].succ[1], bbs[b].succ[2]} \ {0} : b \in S}
  IN IF T = S THEN S ELSE ReachFrom(bbs, T)

\* the position of block b in the visit order
DfsPos(b) == CHOOSE k \in 1..Len(dfs) : dfs[k] = b

\* the numbering of the current round is complete
Numbered == pc \in {"intervals", "pool", "scan", "resolved"}

\* C13: in every round the visit order holds exactly the blocks reachable
\* from the entry block, each once; the instructions of these blocks, and no
\* others, have an index; the indices are 1..N without repetition and grow
\* along the visit order and along each block
C13_Linearizer ==
  Numbered =>
    /\ Range(dfs) = ReachFrom(blocks, {1})
    /\ Cardinality(Range(dfs)) = Len(dfs)
    /\ DOMAIN inst2int =
         UNION {{<<b, i>> : i \in 1..Len(blocks[b].insts)} : b \in Range(dfs)}
    /\ {inst2int[x] : x \in DOMAIN inst2int}
         = 1..Cardinality(DOMAIN inst2int)
    /\ \A x \in DOMAIN inst2int : \A y \in DOMAIN inst2int :
         (\/ DfsPos(x[1]) < DfsPos(y[1])
          \/ (x[1] = y[1] /\ x[2] < y[2])) => inst2int[x] < inst2int[y]

\* a numbering of a later round in which a branch has two successors, a
\* block is left out and the rewrite has made a block longer
C13_Witness ==
  /\ pc = "pool"
  /\ round >= 2
  /\ Len(dfs) >= 2
  /\ Len(dfs) < NB
  /\ \E b \in Range(dfs) : \E i \in 1..Len(blocks[b].insts) :
       blocks[b].insts[i].born > 0

\* C14: for every visited block with two distinct successors neither of
\* which comes before it in the visit order, the primary successor succ[0]
\* comes before the alternate successor succ[1] in the visit order, also
\* when succ[0] was already on the stack when the block was popped
C14_PrimaryFirst ==
  Numbered =>
    \A b \in Range(dfs) :
      (/\ blocks[b].succ[1] # 0
       /\ blocks[b].succ[2] # 0
       /\ blocks[b].succ[1] # blocks[b].succ[2]
       /\ DfsPos(b) < DfsPos(blocks[b].succ[1])
       /\ DfsPos(b) < DfsPos(blocks[b].succ[2]))
        => DfsPos(blocks[b].succ[1]) < DfsPos(blocks[b].succ[2])

\* instruction x = <<block, index>> writes or reads operand o in one of its
\* operand slots
Touches(bbs, x, o) ==
  \E p \in Range(DefSlots(bbs, x[1], x[2])) \cup Range(UseSlots(bbs, x[1], x[2])) :
    Deref(bbs, p) = o

\* the interval of operand o: from the least start to the greatest end of
\* its def slots
IntervalOf(o) ==
  [start |-> SetMin({operand2start[p] : p \in Range(inverse_ptr[o])}),
   end |-> SetMax({operand2end[p] : p \in Range(inverse_ptr[o])})]

\* C15: when the intervals are built, the interval of every colorable operand
\* with a def in a visited block contains the index of every instruction of
\* a visited block that writes or reads the operand, its last read included
C15_IntervalCoverage ==
  pc = "pool" =>
    \A o \in DOMAIN inverse_ptr :
      needs_color(o) =>
        \A x \in DOMAIN inst2int :
          Touches(blocks, x, o) =>
            /\ IntervalOf(o).start <= inst2int[x]
            /\ inst2int[x] <= IntervalOf(o).end

\* active is in ascending order of interval end
ActiveSorted ==
  \A j \in 1..(Len(active) - 1) :
    operand2end[active[j]] <= operand2end[active[j + 1]]

\* the entries of active hold pairwise distinct pool registers, all of them
\* marked in used
ActiveRegs ==
  /\ \A j \in 1..Len(active) :
       /\ Deref(blocks, active[j]).state = "Allocated"
       /\ Deref(blocks, active[j]).value \in Pool
       /\ used[Deref(blocks, active[j]).value] = 1
  /\ \A j \in 1..Len(active) : \A k \in 1..Len(active) :
       j # k => Deref(blocks, active[j]).value # Deref(blocks, active[k]).value

\* the scan is at a Virtual def, and after the expiry no pool register is
\* free
NoFreeRegister ==
  /\ pc = "scan"
  /\ si <= Len(start_list)
  /\ Scannable(Deref(blocks, start_list[si]))
  /\ \A k \in Pool :
       /\ used[k] = 1
       /\ \A j \in 1..Expired(active, operand2start[start_list[si]]) :
            Deref(blocks, active[j]).value # k

\* the search for a free register is made and finds none
PoolExhausted ==
  NoFreeRegister /\ Deref(blocks, start_list[si]) \notin DOMAIN allocated

\* C16: at every step of the scan active is sorted by interval end, its
\* entries hold pairwise distinct pool registers that are marked used, and
\* active is not empty when no free pool register is found, so that its last
\* entry, the one with the greatest end, can be evicted
C16_ActiveList ==
  pc = "scan" =>
    /\ ActiveSorted
    /\ ActiveRegs
    /\ PoolExhausted => active # <<>>

\* the step spills the def v and leaves active and the pool alone
SpillsNew(v) ==
  /\ spilled_nodes' = spilled_nodes \cup {Deref(blocks, v)}
  /\ Deref(blocks', v) = Deref(blocks, v)
  /\ active' = active
  /\ used' = used

\* the step spills the entry furthest of active, makes it Virtual again and
\* gives its register and its place in active to the def v
Evicts(furthest, v) ==
  /\ spilled_nodes' = spilled_nodes \cup {V(alloc[furthest])}
  /\ Deref(blocks', furthest) = V(alloc[furthest])
  /\ Deref(blocks', v) = Alloc(Deref(blocks, furthest).value)
  /\ Len(active') = Len(active)
  /\ Range(active') = (Range(active) \ {furthest}) \cup {v}
  /\ used' = used

\* C17: when the scan is at a Virtual def v and no pool register is free,
\* the step spills v without touching active and the pool if v ends after
\* the last entry of active, and otherwise evicts that entry in favour of v
C17_SpillDecision ==
  [][NoFreeRegister =>
       /\ active # <<>>
       /\ IF operand2end[start_list[si]] > operand2end[active[Len(active)]]
          THEN SpillsNew(start_list[si])
          ELSE Evicts(active[Len(active)], start_list[si])]_vars

\* the same for the defs that reach the comparison of the ends
C17_Compared ==
  [][(PoolExhausted /\ active # <<>>) =>
       IF operand2end[start_list[si]] > operand2end[active[Len(active)]]
       THEN SpillsNew(start_list[si])
       ELSE Evicts(active[Len(active)], start_list[si])]_vars

\* the indices, within block b of bbs, of the instructions the rewrite of
\* round rnd did not insert: the j-th of them is the j-th instruction the
\* block had before
Originals(bbs, b, rnd) ==
  SelectSeq([i \in 1..Len(bbs[b].insts) |-> i],
            LAMBDA i : bbs[b].insts[i].born # rnd)

\* the indices of the instructions of block b that write or read operand n
OccursAt(bbs, b, n) ==
  {j \in 1..Len(bbs[b].insts) : Touches(bbs, <<b, j>>, n)}

\* the operands that instruction x of new holds in the slots where the
\* instruction y of old held n
Substitutes(old, y, new, x, n) ==
  {new[f] : f \in {g \in OperandFields : old[g] = n}}

\* in block b the reload register that stands for n at its first occurrence
\* also stands for n at every occurrence that follows within Window
\* instructions of the rewritten block
StaysOpen(old, new, b, n, rnd) ==
  LET occ == OccursAt(old, b, n)
      at == Originals(new, b, rnd)
      first == SetMin(occ)
  IN occ # {} =>
       \A k \in occ :
         at[k] - at[first] <= Window =>
           Substitutes(old[b].insts[k], k, new[b].insts[at[k]], at[k], n)
             = Substitutes(old[b].insts[first], first,
                           new[b].insts[at[first]], at[first], n)

\* C18: the reload register opened for a spilled operand in a block is
\* closed only when more than 30 instructions have gone by since it was
\* opened, or at the end of the block: the occurrences of the operand within
\* 30 instructions after the one that opened the register use that register,
\* wherever in the block it was opened
C18_CheckpointWindow ==
  [][(pc = "resolved" /\ pc' = "loop") =>
       \A n \in spilled_nodes : \A b \in 1..NB :
         StaysOpen(Restore(blocks, alloc), blocks', b, n, round)]_vars

\* the loads and stores of bbs inserted by the rewrites of the rounds rnds
Accesses(bbs, rnds) ==
  UNION {{<<b, i>> : i \in {j \in 1..Len(bbs[b].insts) :
                             /\ bbs[b].insts[j].born \in rnds
                             /\ bbs[b].insts[j].kind \in {"MILoad", "MIStore"}}} :
           b \in 1..Len(bbs)}

\* the stack offset an inserted access x goes to: its immediate offset, or
\* the immediate that the move before it puts into its offset register
SlotOf(bbs, x) ==
  IF bbs[x[1]].insts[x[2]].offset.state = "Immediate"
  THEN bbs[x[1]].insts[x[2]].offset.value
  ELSE bbs[x[1]].insts[x[2] - 1].rhs.value

\* the register an inserted access loads or stores
RegOf(bbs, x) ==
  IF bbs[x[1]].insts[x[2]].kind = "MILoad"
  THEN bbs[x[1]].insts[x[2]].dst ELSE bbs[x[1]].insts[x[2]].data

\* the reload registers that stand for operand n after the rewrite
ReloadRegsOf(old, new, n, rnd) ==
  UNION {UNION {Substitutes(old[b].insts[j], j,
                            new[b].insts[Originals(new, b, rnd)[j]],
                            Originals(new, b, rnd)[j], n) :
                  j \in OccursAt(old, b, n)} : b \in 1..Len(old)}

\* the offsets of the accesses the rewrite of round rnd inserted for n
SlotsOf(old, new, n, rnd) ==
  {SlotOf(new, x) : x \in {y \in Accesses(new, {rnd}) :
                             RegOf(new, y) \in ReloadRegsOf(old, new, n, rnd)}}

\* C19: stack_size never decreases; the rewrite of a round uses one offset
\* for all the accesses it inserts for one spilled operand, in whatever
\* block, different offsets for different spilled operands, and none that
\* the rewrite of an earlier round of the run has used
C19_FreshSlots ==
  [][/\ stack_size' >= stack_size
     /\ (pc = "resolved" /\ pc' = "loop") =>
          \A n \in spilled_nodes :
            /\ Cardinality(SlotsOf(Restore(blocks, alloc), blocks', n,
                                   round)) = 1
            /\ \A x \in Accesses(blocks', 1..(round - 1)) :
                 SlotOf(blocks', x)
                   \notin SlotsOf(Restore(blocks, alloc), blocks', n, round)
            /\ \A m \in spilled_nodes \ {n} :
                 SlotsOf(Restore(blocks, alloc), blocks', n, round)
                   \cap SlotsOf(Restore(blocks, alloc), blocks', m, round)
                     = {}]_vars

\* a rewrite after the first round has inserted accesses to one slot in two
\* blocks, and accesses of an earlier round are there
C19_Witness ==
  /\ pc = "loop"
  /\ round >= 2
  /\ Accesses(blocks, 1..(round - 1)) # {}
  /\ \E x \in Accesses(blocks, {round}) : \E y \in Accesses(blocks, {round}) :
       x[1] # y[1] /\ SlotOf(blocks, x) = SlotOf(blocks, y)

\* instruction i of block b reads register o, and no instruction before it
\* in the block, inserted load included, writes o
ReadsUnwritten(bbs, b, i, o) ==
  /\ \E p \in Range(UseSlots(bbs, b, i)) : Deref(bbs, p) = o
  /\ \A j \in 1..(i - 1) :
       \A p \in Range(DefSlots(bbs, b, j)) : Deref(bbs, p) # o

\* C20: after the rewrite of a round every instruction that reads one of the
\* virtual registers the rewrite introduced comes, in its block, after an
\* inserted load into that register or after another instruction that
\* writes it, also when the instruction itself writes the register
C20_ReloadBeforeRead ==
  [][(pc = "resolved" /\ pc' = "loop") =>
       \A b \in 1..Len(blocks') : \A i \in 1..Len(blocks'[b].insts) :
         \A r \in virtual_max..(virtual_max' - 1) :
           ~ReadsUnwritten(blocks', b, i, V(r))]_vars

====
